---- MODULE Spec2Model ----
(***************************************************************************)
(* The login session state machine of qrcode_Scan_cookie_115_GUI.py:       *)
(* QRCodeLoginApp's main-thread handlers (start_login_process,             *)
(* stop_polling, close_app, the scheduled set_ui_state('finished')         *)
(* callbacks) and the worker threads running _login_thread_func.           *)
(*                                                                         *)
(* A worker's position pc[w] is named after the source line it is about    *)
(* to execute or is blocked in:                                            *)
(*   none  thread not created          L285  started, nothing executed     *)
(*   L290  get_qrcode_token in flight  L295  token stored, before check    *)
(*   L302  get_qrcode in flight        L310  loop test, polling_active     *)
(*   L310b loop test, _stop_event      L314  in time.sleep(2)              *)
(*   L318  get_qrcode_status in flight L347  post_qrcode_result in flight  *)
(*   L370  after the loop              L376  finally clause                *)
(*   done  thread exited                                                   *)
(* Shared attributes are read and written one per step wherever another    *)
(* thread can run in between.                                              *)
(***************************************************************************)
EXTENDS Integers, Sequences, FiniteSets, TLC

\* ---- bounds of the model ----
MaxSessions == 2      \* threads that start_login_process may create
MaxPending == 1       \* stop requests whose callback is still queued
MaxClock == 240       \* largest clock reading of a worker

\* ---- program constants ----
timeout_seconds == 180   \* line 308
POLL_DELAY == 2          \* line 314, time.sleep(2)
STATUS_TIMEOUT == 5      \* line 75, urlopen(req, timeout=5)
CALL_TIMEOUT == 10       \* lines 55, 107, 121, urlopen(req, timeout=10)
BACKOFF == 3             \* line 321, time.sleep(3)

Workers == 1..MaxSessions

VARIABLES
    polling_active,    \* self.polling_active
    poll_thread,       \* self.poll_thread: 0 is None, else the latest thread
    stop_event,        \* self._stop_event
    qrcode_token,      \* self.qrcode_token: 0 is None, else the dict of token w
    popped,            \* token dicts whose "qrcode" key has been popped
    get_qr_button,     \* state of the start button
    stop_button,       \* state of the stop button
    pending_finished,  \* queued after(0, set_ui_state('finished')) callbacks
    current_app_type,  \* self.current_app_type
    window,            \* the main window: open, closing (close_app sleeps), destroyed
    pc,                \* position of each worker thread
    resp,              \* status_resp of each worker
    uid,               \* local uid of each worker
    selected_app,      \* local selected_app of each worker
    payload,           \* the token dict the latest status request was made with
    clock,             \* time.monotonic() of a worker, since its thread began
    start_time,        \* local start_time of each worker
    qr_image_data,     \* local qr_image_data of each worker
    login_result,      \* local login_result of each worker
    cookie_str,        \* the text display_cookies was asked to show
    ev,                \* what the worker's latest step reported
    outcomes,          \* terminal outcomes a worker has reached
    exch_calls,        \* post_qrcode_result calls a worker has made
    scanned            \* the worker is polling and has reported "scanned"

mainVars == <<polling_active, poll_thread, stop_event, qrcode_token, popped,
              get_qr_button, stop_button, pending_finished, current_app_type,
              window>>
workerVars == <<pc, resp, uid, selected_app, payload, clock, start_time,
                qr_image_data, login_result, cookie_str, ev, outcomes,
                exch_calls, scanned>>
vars == <<mainVars, workerVars>>

\* ---- responses of the remote service ----

StatusCodes == {0, 1, 2, -1, -2, -99, 3}

NoResp == [kind |-> "none", state |-> FALSE, status |-> 0]
EmptyBody == [kind |-> "empty", state |-> FALSE, status |-> 0]
Body(st, s) == [kind |-> "dict", state |-> st, status |-> s]

\* What the status request can end in: an exception of urlopen, or a body.
Transport ==
    {[kind |-> "TimeoutError", state |-> FALSE, status |-> 0],
     [kind |-> "URLError", state |-> FALSE, status |-> 0],
     EmptyBody, Body(FALSE, 0)} \cup {Body(TRUE, s) : s \in StatusCodes}

get_qrcode_status(t) ==
    IF t.kind = "TimeoutError" THEN Body(TRUE, 0)
    ELSE IF t.kind = "URLError" THEN Body(FALSE, -99)
    ELSE t

TokenResults == {"ok", "state_false", "raise"}
\* get_qrcode: image data that can be shown, data that cannot, or an exception
ImageResults == {"png", "garbage", "raise"}

\* Credential mappings: sequences of <<key, value>> pairs, in dict order.
CookieMaps == {<<>>, <<<<"UID", "u1">>, <<"CID", "c1">>>>}
NoResult == [kind |-> "none", state |-> FALSE, cookie |-> <<>>]
ExchangeResults ==
    {[kind |-> "raise", state |-> FALSE, cookie |-> <<>>],
     [kind |-> "dict", state |-> FALSE, cookie |-> <<>>]}
    \cup {[kind |-> "dict", state |-> TRUE, cookie |-> c] : c \in CookieMaps}

\* The names of AppEnum, line 28
AppEnum == {"web", "android", "ios", "linux", "mac", "windows", "tv",
            "alipaymini", "wechatmini", "qandroid"}
\* what the combobox can hold: app_type_combo.set("windows"), line 166
ComboValues == {"windows"}

\* post_qrcode_result(uid, app), lines 93-112: what the call can end in;
\* get_enum_name raises ValueError for an app that AppEnum does not have
post_qrcode_result(app) ==
    IF app \in AppEnum THEN ExchangeResults
    ELSE {[kind |-> "raise", state |-> FALSE, cookie |-> <<>>]}

\* "; ".join(f"{k}={v}" for k, v in cookie_dict.items()), as a sequence of pieces
RECURSIVE Join(_)
Join(c) ==
    IF c = <<>> THEN <<>>
    ELSE IF Len(c) = 1 THEN <<c[1][1], "=", c[1][2]>>
    ELSE <<c[1][1], "=", c[1][2], "; ">> \o Join(Tail(c))

\* The text of the exception that ends a session in the given outcome
\* (lines 293/297, 123-126, 312, 352/357, 360, 362), in English.
ErrorText(outcome) ==
    CASE outcome = "FailedToken" -> "cannot get token"
      [] outcome = "FailedImage" -> "cannot download code image"
      [] outcome = "FailedTimeout" -> "scan timed out, get a new code"
      [] outcome = "FailedExchange" -> "cannot get cookie"
      [] outcome = "Expired" -> "code expired, get a new one"
      [] outcome = "Cancelled" -> "login cancelled"
      [] OTHER -> "poll failed"

\* show_error(message): a message box with the message, then
\* update_status("错误: " + the first line of the message)
show_error(message) == <<"box_error", message, "st_errmsg">>

Alive(w) == pc[w] \notin {"none", "done"}
is_alive(t) == t # 0 /\ Alive(t)
InCall == {"L290", "L302", "L318", "L347"}

\* ---- the clock ----

\* With exact timing a blocking operation takes one of the durations D. With
\* sampled timing the clock is only looked at where the code reads it: the
\* reading of line 307 is the origin, and by a reading of line 311 either no
\* notable time has passed or enough for the deadline to be over.
Durations(D, exact) == IF exact THEN D ELSE {0}
SinceLastReading(exact) == IF exact THEN {0} ELSE {0, timeout_seconds + 1}

Advance(w, D) ==
    \E d \in D :
        /\ clock[w] + d <= MaxClock
        /\ clock' = [clock EXCEPT ![w] = @ + d]

\* ---- main thread ----

SetUiRunning ==
    /\ get_qr_button' = "disabled"
    /\ stop_button' = "normal"

\* set_ui_state('finished')
SetUiFinished ==
    /\ get_qr_button' = "normal"
    /\ stop_button' = "disabled"
    /\ polling_active' = FALSE

\* start_login_process, lines 262-265: a login is already in progress
StartRejected ==
    /\ get_qr_button = "normal"
    /\ polling_active
    /\ UNCHANGED vars

\* start_login_process, lines 266-282, with app the value of
\* selected_app_type_var: a new worker thread is started
start_login_process(app) ==
    /\ get_qr_button = "normal"
    /\ ~polling_active
    /\ current_app_type' = app
    /\ app # ""
    /\ poll_thread < MaxSessions
    /\ SetUiRunning
    /\ stop_event' = FALSE
    /\ poll_thread' = poll_thread + 1
    /\ pc' = [pc EXCEPT ![poll_thread + 1] = "L285"]
    /\ UNCHANGED <<polling_active, qrcode_token, popped, pending_finished, window,
                   resp, uid, selected_app, payload, clock, start_time, qr_image_data, login_result,
                   cookie_str, ev, outcomes, exch_calls, scanned>>

\* The start button, with the value the readonly combobox holds: one of the
\* names of AppEnum (lines 158-166), which the code treats all alike.
StartLogin == \E app \in ComboValues : start_login_process(app)

\* stop_polling, lines 379-385
StopPolling ==
    /\ stop_button = "normal"
    /\ pending_finished < MaxPending
    /\ stop_event' = (stop_event \/ is_alive(poll_thread))
    /\ pending_finished' = pending_finished + 1
    /\ UNCHANGED <<polling_active, poll_thread, qrcode_token, popped,
                   get_qr_button, stop_button, current_app_type, window,
                   pc, resp, uid, selected_app, payload, clock, start_time, qr_image_data, login_result,
                   cookie_str, ev, outcomes, exch_calls, scanned>>

\* a queued after(0, lambda: self.set_ui_state('finished')) runs
FinishedCallback ==
    /\ pending_finished > 0
    /\ pending_finished' = pending_finished - 1
    /\ SetUiFinished
    /\ UNCHANGED <<poll_thread, stop_event, qrcode_token, popped,
                   current_app_type, window, workerVars>>

\* start_login_process, lines 266-270: the variable holds no app type
StartNoApp ==
    /\ get_qr_button = "normal"
    /\ ~polling_active
    /\ current_app_type' = ""
    /\ UNCHANGED <<polling_active, poll_thread, stop_event, qrcode_token, popped,
                   get_qr_button, stop_button, pending_finished, window,
                   workerVars>>

\* What selected_app_type_var can hold when it is set by other means than
\* the combobox: a name of AppEnum or any other string.
Identities == {"windows", "unknown"}

StartAnyApp == \E app \in Identities : start_login_process(app)

\* close_app, lines 388-390: stop_polling, then the test of line 389
CloseApp ==
    /\ window = "open"
    /\ stop_event' = (stop_event \/ is_alive(poll_thread))
    /\ pending_finished' = pending_finished + 1
    /\ window' = IF is_alive(poll_thread) THEN "closing" ELSE "destroyed"
    /\ UNCHANGED <<polling_active, poll_thread, qrcode_token, popped,
                   get_qr_button, stop_button, current_app_type, workerVars>>

\* close_app, lines 390-391: time.sleep(0.1) is over, master.destroy();
\* mainloop returns and the process ends, and its daemon threads with it
Destroy ==
    /\ window = "closing"
    /\ window' = "destroyed"
    /\ UNCHANGED <<polling_active, poll_thread, stop_event, qrcode_token, popped,
                   get_qr_button, stop_button, pending_finished,
                   current_app_type, workerVars>>

\* ---- worker thread: _login_thread_func ----

\* the worker's step reports e and moves to p
Step(w, p, e) ==
    /\ pc' = [pc EXCEPT ![w] = p]
    /\ ev' = [ev EXCEPT ![w] = e]

\* an exception reaches line 373: show_error, then the finally clause
Raise(w, outcome) ==
    /\ Step(w, "L376", show_error(ErrorText(outcome)))
    /\ outcomes' = [outcomes EXCEPT ![w] = @ \cup {outcome}]
    /\ scanned' = [scanned EXCEPT ![w] = FALSE]

\* break, or the loop test fails: on to line 370
Break(w) ==
    /\ Step(w, "L370", <<>>)
    /\ scanned' = [scanned EXCEPT ![w] = FALSE]
    /\ UNCHANGED outcomes

\* continue, or the end of the loop body: back to the test of line 310
Continue(w, e) ==
    /\ Step(w, "L310", e)
    /\ UNCHANGED <<outcomes, exch_calls, scanned>>

\* lines 285-290, up to the token request
W285(w) ==
    /\ pc[w] = "L285"
    /\ polling_active' = TRUE
    /\ selected_app' = [selected_app EXCEPT ![w] = current_app_type]
    /\ Step(w, "L290", <<"st_token">>)
    /\ UNCHANGED <<poll_thread, stop_event, qrcode_token, popped, get_qr_button,
                   stop_button, pending_finished, current_app_type, window,
                   resp, uid, payload, clock, start_time, qr_image_data, login_result,
                   cookie_str, outcomes, exch_calls, scanned>>

\* get_qrcode_token returns or raises; lines 291-294
W290(w, exact) ==
    /\ pc[w] = "L290"
    /\ Advance(w, Durations({0, CALL_TIMEOUT}, exact))
    /\ \E r \in TokenResults :
         IF r = "ok"
           THEN /\ qrcode_token' = w
                /\ Step(w, "L295", <<>>)
                /\ UNCHANGED <<outcomes, scanned>>
           ELSE /\ Raise(w, "FailedToken")
                /\ UNCHANGED qrcode_token
    /\ UNCHANGED <<polling_active, poll_thread, stop_event, popped, get_qr_button,
                   stop_button, pending_finished, current_app_type, window,
                   resp, uid, selected_app, payload, start_time, qr_image_data, login_result,
                   cookie_str, exch_calls>>

\* lines 295-302: the format check, pop("qrcode"), uid, then the image request
W295(w) ==
    /\ pc[w] = "L295"
    /\ IF qrcode_token \in popped
         THEN /\ Raise(w, "FailedToken")
              /\ UNCHANGED <<popped, uid>>
         ELSE /\ popped' = popped \cup {qrcode_token}
              /\ uid' = [uid EXCEPT ![w] = qrcode_token]
              /\ Step(w, "L302", <<"st_download">>)
              /\ UNCHANGED <<outcomes, scanned>>
    /\ UNCHANGED <<polling_active, poll_thread, stop_event, qrcode_token,
                   get_qr_button, stop_button, pending_finished,
                   current_app_type, window,
                   resp, selected_app, payload, clock, start_time, qr_image_data, login_result,
                   cookie_str, exch_calls>>

\* display_qr_code, lines 218-231: what showing the image data d reports
display_qr_code(d) == IF d = "png" THEN <<>> ELSE show_error("cannot show code image")

\* get_qrcode raises: the exception leaves the try block at line 302
OnImageErrorContinue(w) ==
    /\ Step(w, "L310", show_error(ErrorText("FailedImage")) \o <<"st_waiting">>)
    /\ start_time' = [start_time EXCEPT ![w] = clock'[w]]
    /\ UNCHANGED <<outcomes, qr_image_data, scanned>>

OnImageError(w) ==
    /\ Raise(w, "FailedImage")
    /\ UNCHANGED <<start_time, qr_image_data>>

\* get_qrcode returns or raises; lines 303-307
W302(w, exact) ==
    /\ pc[w] = "L302"
    /\ Advance(w, Durations({0, CALL_TIMEOUT}, exact))
    /\ \E r \in ImageResults :
         IF r = "raise"
           THEN OnImageError(w)
           ELSE /\ qr_image_data' = [qr_image_data EXCEPT ![w] = r]
                /\ Step(w, "L310", display_qr_code(r) \o <<"st_waiting">>)
                /\ start_time' = [start_time EXCEPT ![w] = clock'[w]]
                /\ UNCHANGED <<outcomes, scanned>>
    /\ UNCHANGED <<mainVars, resp, uid, selected_app, payload, login_result,
                   cookie_str, exch_calls>>

\* line 310, first operand: while self.polling_active
W310(w) ==
    /\ pc[w] = "L310"
    /\ IF polling_active
         THEN Step(w, "L310b", <<>>) /\ UNCHANGED <<outcomes, scanned>>
         ELSE Break(w)
    /\ resp' = [resp EXCEPT ![w] = NoResp]
    /\ qr_image_data' = [qr_image_data EXCEPT ![w] = "none"]
    /\ UNCHANGED <<mainVars, uid, selected_app, payload, clock, start_time, login_result,
                   cookie_str, exch_calls>>

\* line 311: time.monotonic() - start_time > timeout_seconds
TimedOutInMinutes(elapsed) == elapsed > timeout_seconds * 60

TimedOut(elapsed) == elapsed > timeout_seconds

\* line 310, second operand, and the timeout test of lines 311-312
W310b(w, exact) ==
    /\ pc[w] = "L310b"
    /\ IF stop_event
         THEN Break(w) /\ UNCHANGED clock
         ELSE /\ Advance(w, SinceLastReading(exact))
              /\ IF TimedOut(clock'[w] - start_time[w])
                   THEN Raise(w, "FailedTimeout")
                   ELSE Step(w, "L314", <<>>) /\ UNCHANGED <<outcomes, scanned>>
    /\ UNCHANGED <<mainVars, resp, uid, selected_app, payload, start_time, qr_image_data, login_result,
                   cookie_str, exch_calls>>

\* time.sleep(2) ends; line 315; the status request of line 318 is issued
W314(w, exact) ==
    /\ pc[w] = "L314"
    /\ Advance(w, Durations({POLL_DELAY}, exact))
    /\ IF stop_event
         THEN Break(w) /\ UNCHANGED payload
         ELSE /\ payload' = [payload EXCEPT ![w] = qrcode_token]
              /\ Step(w, "L318", <<>>)
              /\ UNCHANGED <<outcomes, scanned>>
    /\ UNCHANGED <<mainVars, resp, uid, selected_app, start_time, qr_image_data, login_result,
                   cookie_str, exch_calls>>

\* lines 330-334: state is false, an advisory and the next tick
OnStateFalseRaise(w) ==
    /\ Raise(w, "FailedPoll")
    /\ UNCHANGED exch_calls

OnStateFalse(w) == Continue(w, <<"st_error">>)

\* line 344: elif status == 2
IsConfirmedOrMore(status) == status >= 2

IsConfirmed(status) == status = 2

\* lines 359-360: status -1, the code has expired
OnExpiredAsCancelled(w) ==
    /\ Raise(w, "Cancelled")
    /\ UNCHANGED exch_calls

OnExpired(w) ==
    /\ Raise(w, "Expired")
    /\ UNCHANGED exch_calls

\* lines 365-367: any other status, an advisory
OnUnknownStatusRaise(w) ==
    /\ Raise(w, "FailedPoll")
    /\ UNCHANGED exch_calls

OnUnknownStatus(w) == Continue(w, <<"st_unknown">>)

\* lines 326-367: the response r is interpreted
Interpret(w, r) ==
    IF r.kind = "empty" THEN Continue(w, <<"st_empty">>)
    ELSE IF ~r.state THEN OnStateFalse(w)
    ELSE IF r.status = 0 THEN Continue(w, <<"st_waiting">>)
    ELSE IF r.status = 1
      THEN /\ Step(w, "L310", <<"st_scanned">>)
           /\ scanned' = [scanned EXCEPT ![w] = TRUE]
           /\ UNCHANGED <<outcomes, exch_calls>>
    ELSE IF IsConfirmed(r.status)
      THEN /\ Step(w, "L347", <<"st_confirmed">>)
           /\ exch_calls' = [exch_calls EXCEPT ![w] = @ + 1]
           /\ scanned' = [scanned EXCEPT ![w] = FALSE]
           /\ UNCHANGED outcomes
    ELSE IF r.status = -1 THEN OnExpired(w)
    ELSE IF r.status = -2 THEN Raise(w, "Cancelled") /\ UNCHANGED exch_calls
    ELSE IF r.status = -99 THEN Continue(w, <<"st_neterr">>)
    ELSE OnUnknownStatus(w)

\* get_qrcode_status returns; line 324; then lines 326-367. The handler of
\* lines 319-322 runs if the call raises, which get_qrcode_status never does.
W318(w, exact) ==
    /\ pc[w] = "L318"
    /\ \E t \in Transport :
         LET r == get_qrcode_status(t)
         IN  IF r.kind = "raise"
               THEN /\ Advance(w, Durations({BACKOFF}, exact))
                    /\ Continue(w, <<"st_pollerr">>)
                    /\ UNCHANGED resp
               ELSE /\ Advance(w, Durations({0, STATUS_TIMEOUT}, exact))
                    /\ IF stop_event
                         THEN Break(w) /\ UNCHANGED <<resp, exch_calls>>
                         ELSE /\ resp' = [resp EXCEPT ![w] = r]
                              /\ Interpret(w, r)
    /\ payload' = [payload EXCEPT ![w] = IF pc'[w] = "L347" THEN @ ELSE 0]
    /\ UNCHANGED <<mainVars, uid, selected_app, start_time, qr_image_data, login_result,
                   cookie_str>>

\* lines 348-350: login_result, its state and a cookie mapping that is not empty
HasStateOnly(r) == r.kind = "dict" /\ r.state

HasCookies(r) == r.kind = "dict" /\ r.state /\ r.cookie # <<>>

\* post_qrcode_result returns or raises; lines 348-358
W347(w, exact) ==
    /\ pc[w] = "L347"
    /\ Advance(w, Durations({0, CALL_TIMEOUT}, exact))
    /\ \E r \in post_qrcode_result(selected_app[w]) :
         /\ login_result' = [login_result EXCEPT ![w] = r]
         /\ IF HasCookies(r)
              THEN /\ cookie_str' = [cookie_str EXCEPT ![w] = Join(r.cookie)]
                   /\ Step(w, "L370", <<"cookies", "st_success", "box_info">>)
                   /\ outcomes' = [outcomes EXCEPT ![w] = @ \cup {"Succeeded"}]
                   /\ UNCHANGED scanned
              ELSE /\ Raise(w, "FailedExchange")
                   /\ UNCHANGED cookie_str
    /\ resp' = [resp EXCEPT ![w] = NoResp]
    /\ payload' = [payload EXCEPT ![w] = 0]
    /\ UNCHANGED <<mainVars, uid, selected_app, start_time, qr_image_data,
                   exch_calls>>

\* lines 370-371, after the loop
W370(w) ==
    /\ pc[w] = "L370"
    /\ IF stop_event
         THEN /\ Step(w, "L376", <<"st_stopped">>)
              /\ outcomes' = [outcomes EXCEPT ![w] = @ \cup {"Cancelled"}]
         ELSE /\ Step(w, "L376", <<>>)
              /\ UNCHANGED outcomes
    /\ UNCHANGED <<mainVars, resp, uid, selected_app, payload, clock, start_time,
                   qr_image_data,
                   login_result, cookie_str, exch_calls, scanned>>

\* lines 375-377: the finally clause; the thread exits and its locals die
W376(w) ==
    /\ pc[w] = "L376"
    /\ polling_active' = FALSE
    /\ pending_finished' = pending_finished + 1
    /\ Step(w, "done", <<>>)
    /\ resp' = [resp EXCEPT ![w] = NoResp]
    /\ uid' = [uid EXCEPT ![w] = 0]
    /\ selected_app' = [selected_app EXCEPT ![w] = ""]
    /\ payload' = [payload EXCEPT ![w] = 0]
    /\ clock' = [clock EXCEPT ![w] = 0]
    /\ start_time' = [start_time EXCEPT ![w] = 0]
    /\ qr_image_data' = [qr_image_data EXCEPT ![w] = "none"]
    /\ login_result' = [login_result EXCEPT ![w] = NoResult]
    /\ cookie_str' = [cookie_str EXCEPT ![w] = <<>>]
    /\ outcomes' = [outcomes EXCEPT ![w] = {}]
    /\ exch_calls' = [exch_calls EXCEPT ![w] = 0]
    /\ UNCHANGED <<poll_thread, stop_event, qrcode_token, popped, get_qr_button,
                   stop_button, current_app_type, window, scanned>>

Worker(w, exact) ==
    \/ W285(w)
    \/ W290(w, exact)
    \/ W295(w)
    \/ W302(w, exact)
    \/ W310(w)
    \/ W310b(w, exact)
    \/ W314(w, exact)
    \/ W318(w, exact)
    \/ W347(w, exact)
    \/ W370(w)
    \/ W376(w)

\* ---- specifications ----

Init ==
    /\ polling_active = FALSE
    /\ poll_thread = 0
    /\ stop_event = FALSE
    /\ qrcode_token = 0
    /\ popped = {}
    /\ get_qr_button = "normal"
    /\ stop_button = "disabled"
    /\ pending_finished = 0
    /\ current_app_type = ""
    /\ window = "open"
    /\ pc = [w \in Workers |-> "none"]
    /\ resp = [w \in Workers |-> NoResp]
    /\ uid = [w \in Workers |-> 0]
    /\ selected_app = [w \in Workers |-> ""]
    /\ payload = [w \in Workers |-> 0]
    /\ clock = [w \in Workers |-> 0]
    /\ start_time = [w \in Workers |-> 0]
    /\ qr_image_data = [w \in Workers |-> "none"]
    /\ login_result = [w \in Workers |-> NoResult]
    /\ cookie_str = [w \in Workers |-> <<>>]
    /\ ev = [w \in Workers |-> <<>>]
    /\ outcomes = [w \in Workers |-> {}]
    /\ exch_calls = [w \in Workers |-> 0]
    /\ scanned = [w \in Workers |-> FALSE]

\* Every interleaving of the user's requests, the callbacks and the workers;
\* clock readings are sampled.
Next ==
    \/ StartRejected
    \/ StartLogin
    \/ StopPolling
    \/ FinishedCallback
    \/ \E w \in Workers : Worker(w, FALSE)

Spec == Init /\ [][Next]_vars

\* Logins that are never stopped by the user, with exact timing: sleeps and
\* remote calls take their real durations. A sleep ends and a remote call
\* returns or times out, so a worker that can take a step eventually does.
NextTimed ==
    \/ StartLogin
    \/ FinishedCallback
    \/ \E w \in Workers : Worker(w, TRUE)

SpecTimed ==
    /\ Init
    /\ [][NextTimed]_vars
    /\ \A w \in Workers : WF_vars(Worker(w, TRUE))
    /\ WF_vars(FinishedCallback)

\* Spec with the close button and the window manager's close request: the
\* main thread handles nothing else while close_app runs, and nothing runs
\* once the window is destroyed.
NextClose ==
    \/ window = "open" /\ StartRejected
    \/ window = "open" /\ StartLogin
    \/ window = "open" /\ StopPolling
    \/ window = "open" /\ FinishedCallback
    \/ CloseApp
    \/ Destroy
    \/ window # "destroyed" /\ \E w \in Workers : Worker(w, FALSE)

SpecClose == Init /\ [][NextClose]_vars

\* Spec for an owner that sets selected_app_type_var itself.
NextApp ==
    \/ StartRejected
    \/ StartNoApp
    \/ StartAnyApp
    \/ StopPolling
    \/ FinishedCallback
    \/ \E w \in Workers : Worker(w, FALSE)

SpecApp == Init /\ [][NextApp]_vars

\* ---- properties ----

Range(s) == {s[i] : i \in 1..Len(s)}

Terminal == {"Succeeded", "Expired", "Cancelled", "FailedToken", "FailedImage",
             "FailedTimeout", "FailedExchange"}

\* TransientError: the status request failed, state is false
IsTransient(r) == r.kind = "dict" /\ ~r.state
\* UnknownStatus: a status outside 0, 1, 2, -1, -2
IsUnknown(r) == r.kind = "dict" /\ r.state /\ r.status \notin {0, 1, 2, -1, -2}
IsConfirmedResp(r) == r.kind = "dict" /\ r.state /\ r.status = 2

\* worker w starts a remote call in this step
CallStarted(w) == pc'[w] \in InCall /\ pc'[w] # pc[w]

\* the pairs a displayed cookie text stands for
RECURSIVE ParseCookies(_)
ParseCookies(s) ==
    IF Len(s) < 3 THEN <<>>
    ELSE <<<<s[1], s[3]>>>> \o ParseCookies(SubSeq(s, 5, Len(s)))

\* C1: at most one worker thread is alive at any time; a start request made
\* while an earlier worker has not exited never creates a second one.
C1_AtMostOneWorker == Cardinality({w \in Workers : Alive(w)}) <= 1

\* C2: a worker that leaves the try block has reached exactly one terminal
\* outcome: never none (the loop merely ended), never two.
C2_ExactlyOneOutcome ==
    \A w \in Workers : pc[w] = "L376" => Cardinality(outcomes[w]) = 1

\* C3: post_qrcode_result is called at most once per session, only when the
\* response just interpreted is Confirmed, and never in a step that saw the
\* stop flag set.
C3_ExchangeOnlyAfterConfirmed ==
    /\ [](\A w \in Workers :
            /\ exch_calls[w] <= 1
            /\ exch_calls[w] = 1 => pc[w] \in {"L347", "L370", "L376"}
            /\ pc[w] = "L347" => IsConfirmedResp(resp[w]) /\ exch_calls[w] = 1)
    /\ [][\A w \in Workers :
            (pc'[w] = "L347" /\ pc[w] # "L347")
                => pc[w] = "L318" /\ ~stop_event /\ exch_calls[w] = 0]_vars

C3_Witness ==
    \E w \in Workers : pc[w] = "L347" /\ IsConfirmedResp(resp[w])

\* C4: once stop_polling has set the stop flag against a live session that
\* has no outcome yet, that session starts no further remote call, and when it
\* leaves the try block it is Cancelled, unless the call that ended it was
\* already in flight.
C4_CancelStopsSession ==
    [][\A w \in Workers :
         (stop_event /\ Alive(w) /\ outcomes[w] = {})
            => /\ ~CallStarted(w)
               /\ (pc'[w] = "L376" /\ pc[w] # "L376")
                     => ("Cancelled" \in outcomes'[w] \/ pc[w] \in InCall)]_vars

\* C5: a login that the user never stops terminates: its worker exits, with
\* exactly one terminal outcome; no sleep is entered once more than 180
\* seconds have elapsed since start_time, and Failed(Timeout) is what ends a
\* session whose elapsed time exceeds the ceiling at the tick.
C5_TimeoutEndsSession ==
    /\ [](\A w \in Workers :
            /\ pc[w] = "L314" => clock[w] - start_time[w] <= timeout_seconds
            /\ pc[w] = "L318"
                 => clock[w] - start_time[w] <= timeout_seconds + POLL_DELAY
            /\ pc[w] = "L376"
                 => outcomes[w] \subseteq Terminal /\ Cardinality(outcomes[w]) = 1
            /\ "FailedTimeout" \in outcomes[w]
                 => clock[w] - start_time[w] > timeout_seconds)
    /\ \A w \in Workers : Alive(w) ~> (pc[w] = "done")

C5_Witness ==
    \E w \in Workers : pc[w] = "L376" /\ outcomes[w] = {"FailedTimeout"}

\* C6: a worker that has just interpreted a TransientError response is back at
\* the loop test with no terminal outcome and no exchange call, having
\* reported one advisory status update and no message box.
C6_TransientErrorOnlyAdvisory ==
    \A w \in Workers :
        IsTransient(resp[w])
            => /\ pc[w] = "L310"
               /\ ev[w] = <<"st_error">>
               /\ outcomes[w] = {}
               /\ exch_calls[w] = 0

C6_Witness ==
    \E w \in Workers : resp[w] = Body(FALSE, -99) /\ pc[w] = "L310"

\* C7: once a session has reported "scanned", none of its later status updates
\* reports "waiting for scan".
C7_NoRegression ==
    \A w \in Workers : scanned[w] => "st_waiting" \notin Range(ev[w])

\* C8 as stated: whatever get_qrcode does, the worker goes on from the image
\* request to the polling loop.
C8_ImageFailureNotFatal ==
    [][\A w \in Workers :
         (pc[w] = "L302" /\ pc'[w] # "L302") => pc'[w] = "L310"]_vars

\* C8 amended: get_qrcode raising ends the session in Failed with one error
\* box and without entering the loop; the loop is entered only with image
\* data in hand, and data that cannot be shown costs an error box but no
\* outcome.
C8_FetchFailureFatal ==
    \A w \in Workers :
        /\ "FailedImage" \in outcomes[w]
             => /\ pc[w] = "L376"
                /\ outcomes[w] = {"FailedImage"}
                /\ ev[w] = show_error(ErrorText("FailedImage"))
                /\ qr_image_data[w] = "none"
        /\ (pc[w] = "L310" /\ resp[w] = NoResp)
             => /\ qr_image_data[w] \in {"png", "garbage"}
                /\ outcomes[w] = {}
                /\ ("box_error" \in Range(ev[w])) <=> (qr_image_data[w] = "garbage")

C8_Witness ==
    \E w \in Workers : outcomes[w] = {"FailedImage"} /\ pc[w] = "L376"

\* C9: a worker that has just interpreted an UnknownStatus response is back
\* at the loop test with no terminal outcome, having reported exactly one
\* advisory status update.
C9_UnknownStatusOnlyAdvisory ==
    \A w \in Workers :
        IsUnknown(resp[w])
            => /\ pc[w] = "L310"
               /\ Len(ev[w]) = 1
               /\ ev[w][1] \in {"st_unknown", "st_neterr"}
               /\ outcomes[w] = {}
               /\ exch_calls[w] = 0

C9_Witness ==
    \E w \in Workers : resp[w] = Body(TRUE, 3) /\ pc[w] = "L310"

\* C10: once the exchange has returned, the session is Succeeded exactly when
\* the result has state and a cookie mapping that is not empty, and the text
\* displayed stands for exactly that mapping; otherwise the session is Failed
\* and nothing is displayed. The exchange is called once.
C10_SucceededIffCookies ==
    \A w \in Workers :
        LET r == login_result[w]
            good == r.kind = "dict" /\ r.state /\ Len(r.cookie) > 0
        IN  /\ "Succeeded" \in outcomes[w] => r.kind # "none"
            /\ r.kind # "none"
                 => /\ exch_calls[w] = 1
                    /\ pc[w] \in {"L370", "L376"}
                    /\ IF good
                         THEN /\ "Succeeded" \in outcomes[w]
                              /\ "FailedExchange" \notin outcomes[w]
                              /\ ParseCookies(cookie_str[w]) = r.cookie
                         ELSE /\ outcomes[w] = {"FailedExchange"}
                              /\ pc[w] = "L376"
                              /\ cookie_str[w] = <<>>

C10_Witness ==
    \E w \in Workers :
        "Succeeded" \in outcomes[w] /\ Len(login_result[w].cookie) = 2

\* C11: a worker that has just interpreted status -1 is in the finally
\* clause as Expired, one that has interpreted status -2 as Cancelled; each
\* has shown one error box whose text names that outcome and differs from the
\* text of every other outcome; neither has called the exchange, and the only
\* step left to either is the exit of the thread.
C11_RemoteRejectionTerminal ==
    /\ [](\A w \in Workers :
            /\ resp[w] = Body(TRUE, -1)
                 => /\ pc[w] = "L376"
                    /\ outcomes[w] = {"Expired"}
                    /\ ev[w] = <<"box_error", "code expired, get a new one",
                                 "st_errmsg">>
                    /\ exch_calls[w] = 0
            /\ resp[w] = Body(TRUE, -2)
                 => /\ pc[w] = "L376"
                    /\ outcomes[w] = {"Cancelled"}
                    /\ ev[w] = <<"box_error", "login cancelled", "st_errmsg">>
                    /\ exch_calls[w] = 0
            /\ "Expired" \in outcomes[w] => resp[w] = Body(TRUE, -1)
            /\ \A o \in Terminal \ {"Expired"} :
                    ErrorText(o) # ErrorText("Expired")
            /\ \A o \in Terminal \ {"Cancelled"} :
                    ErrorText(o) # ErrorText("Cancelled"))
    /\ [][\A w \in Workers :
            (pc[w] = "L376" /\ pc'[w] # "L376") => pc'[w] = "done"]_vars

C11_Witness ==
    \E w \in Workers : resp[w] = Body(TRUE, -1) /\ pc[w] = "L376"

\* the explanatory messages among what a step reported: the pop-ups, and
\* the status text that is all a stopped session gets
Explanations(e) ==
    {i \in 1..Len(e) : e[i] \in {"box_error", "box_info", "st_stopped"}}

\* C12: the step in which a worker reaches a terminal outcome reports
\* exactly one explanatory message, and no later step of that worker
\* reports another one.
C12_OneMessagePerOutcome ==
    /\ [][\A w \in Workers :
            (outcomes[w] = {} /\ outcomes'[w] # {})
                => Cardinality(Explanations(ev'[w])) = 1]_vars
    /\ [][\A w \in Workers :
            (outcomes[w] # {} /\ pc'[w] # pc[w])
                => Explanations(ev'[w]) = {}]_vars

\* C13: when close_app has destroyed the window, no worker is inside a
\* remote call.
C13_ShutdownWaitsForCall ==
    window = "destroyed" => \A w \in Workers : pc[w] \notin InCall

\* the session a remote call in flight belongs to: the uid it was made with
CallSession(w) ==
    CASE pc[w] = "L302" -> uid[w]
      [] pc[w] = "L318" -> payload[w]
      [] pc[w] = "L347" -> uid[w]
      [] OTHER -> 0

\* C14: a worker makes its remote calls in the order token, image, polls,
\* exchange, and no two calls in flight are made with the same uid.
C14_SequentialCalls ==
    /\ [](\A v, w \in Workers :
            (v # w /\ CallSession(v) # 0) => CallSession(v) # CallSession(w))
    /\ [][\A w \in Workers :
            CallStarted(w)
                => \/ pc'[w] = "L290" /\ pc[w] = "L285"
                   \/ pc'[w] = "L302" /\ pc[w] = "L295"
                   \/ pc'[w] = "L318" /\ pc[w] = "L314"
                   \/ pc'[w] = "L347" /\ pc[w] = "L318"]_vars

C16_TimeoutFromTokenPending ==
    \A w \in Workers :
        /\ pc[w] = "L314" => clock[w] <= timeout_seconds
        /\ "FailedTimeout" \in outcomes[w] => clock[w] > timeout_seconds

\* C17: the sleep before a poll takes 2 seconds, and the step in which a
\* worker interprets a TransientError takes, on top of the call itself, the
\* 3 seconds of the backoff.
C17_PollCadence ==
    /\ [][\A w \in Workers :
            (pc[w] = "L314" /\ pc'[w] = "L318")
                => clock'[w] - clock[w] = POLL_DELAY]_vars
    /\ [][\A w \in Workers :
            (pc[w] = "L318" /\ pc'[w] = "L310" /\ IsTransient(resp'[w]))
                => clock'[w] - clock[w]
                     \in {d + BACKOFF : d \in {0, STATUS_TIMEOUT}}]_vars

\* a worker that has its token and is not inside a poll or past the loop
BeforePoll == {"L295", "L302", "L310", "L310b", "L314"}

\* C18: while the stop flag is set and a worker with no outcome has its
\* token and is before a poll, no step of that worker issues a poll and the
\* worker leaves the try block as Cancelled; and a flag set while a worker
\* is in the delay before a poll is still set when the delay ends.
C18_CancelBeforePoll ==
    [][\A w \in Workers :
         (stop_event /\ outcomes[w] = {} /\ pc[w] \in BeforePoll)
            => /\ pc'[w] # "L318"
               /\ pc'[w] = "L376" => outcomes'[w] = {"Cancelled"}
               /\ pc[w] = "L314" => (stop_event' \/ pc'[w] # "L314")]_vars

\* C19: token dicts are named after the worker whose request returned them.
\* A worker's uid is its own token's, the status request it has in flight
\* was made with its own token, and the uid it exchanges is the one it polled.
C19_OwnParameters ==
    \A w \in Workers :
        /\ uid[w] \in {0, w}
        /\ pc[w] = "L318" => payload[w] = w
        /\ pc[w] = "L347" => uid[w] = payload[w]

\* C20: the step in which a worker exits resets polling_active and leaves a
\* set_ui_state('finished') callback queued; and while a worker is alive the
\* start button is disabled and, once the worker has executed line 285,
\* polling_active is true.
C20_GuardCoversWorker ==
    /\ [][\A w \in Workers :
            (pc[w] # "done" /\ pc'[w] = "done")
                => ~polling_active' /\ pending_finished' > 0]_vars
    /\ [](\A w \in Workers :
            Alive(w) => /\ get_qr_button = "disabled"
                        /\ pc[w] # "L285" => polling_active)

====
